---- MODULE Spec2Model ----
(***************************************************************************)
(* Expense split tracker: a Group's ledger (users and their balances, the  *)
(* expenses list, the transaction log) and its operations add_user,        *)
(* add_expense, settle_debt and simplify_debts.                            *)
(*                                                                         *)
(* Money is a Python float in the source.  Here every monetary value is an *)
(* integer number of mills (1/1000 of a currency unit), so 0.01 is 10 and  *)
(* an amount with three fractional digits such as 0.014 is 14.  round(x,2) *)
(* is Round2: to the nearest multiple of 10 mills.  Percentages use the    *)
(* same scale (1/1000 of a percent point, so 100% is 100000).              *)
(***************************************************************************)
EXTENDS Integers, Sequences, FiniteSets, TLC

(* ------------------------------ bounds -------------------------------- *)

MaxUsers == 3
MaxCalls == 2
MaxList == 2
MaxSharers == 2
MaxEqualList == 3

(* ----------------------------- constants ------------------------------ *)

\* Optional[...] = None
None == 0
\* an id that add_user of this group never handed out
Stranger == MaxUsers + 1
GroupCurrency == "USD"

(* ------------------------------ rounding ------------------------------ *)

Abs(x) == IF x < 0 THEN -x ELSE x

\* round(v, 2) of the double nearest to (k + 0.5)/100: the doubles are not
\* exact halves, so the direction is the one CPython produces for each k.
HalfRoundsUp == {0, 2, 3, 5, 6, 8, 9, 11, 13, 16, 19, 22, 25, 26, 27, 31, 32, 33,
                 37, 38, 39, 40, 44, 45, 46, 50, 51, 52, 53, 54, 55}

\* round(num/den, 2) for num >= 0, den > 0 (num/den in mills), in mills
Round2DivPos(num, den) ==
    LET q == num \div (10 * den)
        r == num - q * 10 * den
    IN  IF 2 * r < 10 * den THEN 10 * q
        ELSE IF 2 * r > 10 * den THEN 10 * (q + 1)
        ELSE IF q \in HalfRoundsUp THEN 10 * (q + 1) ELSE 10 * q

\* round(num/den, 2): round() is symmetric about zero
Round2Div(num, den) ==
    IF num >= 0 THEN Round2DivPos(num, den) ELSE -Round2DivPos(-num, den)

\* round(x, 2)
Round2(x) == Round2Div(x, 1)

(* ------------------- insertion-ordered dict[str, float] --------------- *)
\* A dict is a sequence of <<key, value>> pairs with distinct keys, in
\* insertion order.

KeySet(d) == {d[i][1] : i \in 1..Len(d)}

HasKey(d, k) == k \in KeySet(d)

\* d[k] = v : an existing key keeps its position
DictSet(d, k, v) ==
    IF HasKey(d, k)
    THEN [i \in 1..Len(d) |-> IF d[i][1] = k THEN <<k, v>> ELSE d[i]]
    ELSE Append(d, <<k, v>>)

DictGet(d, k) == LET i == CHOOSE j \in 1..Len(d) : d[j][1] = k IN d[i][2]

RECURSIVE SumValues(_)
\* sum(d.values())
SumValues(d) == IF d = <<>> THEN 0 ELSE d[1][2] + SumValues(Tail(d))

(* ------------------------- Group.add_expense -------------------------- *)

\* split_type.lower()
Lower(s) ==
    CASE s = "EQUAL" -> "equal"
      [] s = "Exact" -> "exact"
      [] OTHER -> s

\* currency = currency or self.currency
CurrencyOrDefault(currency) == IF currency = "" THEN GroupCurrency ELSE currency

RECURSIVE AssignAll(_, _, _)
\* for i, uid in enumerate(users): shares[uid] = share
AssignAll(shares, users, share) ==
    IF users = <<>> THEN shares
    ELSE AssignAll(DictSet(shares, users[1], share), Tail(users), share)

\* if total_assigned != round(amount, 2): shares[last] += round(amount - total_assigned, 2)
Reconcile(shares, amount, last_uid) ==
    LET total_assigned == SumValues(shares)
    IN  IF total_assigned # Round2(amount)
        THEN DictSet(shares, last_uid,
                     DictGet(shares, last_uid) + Round2(amount - total_assigned))
        ELSE shares

\* the "equal" branch, users non-empty
EqualShares(amount, users) ==
    LET share == Round2Div(amount, Len(users))
    IN  Reconcile(AssignAll(<<>>, users, share), amount, users[Len(users)])

\* the "exact" branch: {uid: round(val, 2) for uid, val in exact_amounts.items()}
ExactShares(exact_amounts) ==
    [i \in 1..Len(exact_amounts) |->
        <<exact_amounts[i][1], Round2(exact_amounts[i][2])>>]

\* the "percentage" branch, percentages non-empty
PercentageShares(amount, percentages) ==
    LET shares == [i \in 1..Len(percentages) |->
                     <<percentages[i][1],
                       Round2Div(amount * percentages[i][2], 100000)>>]
    IN  Reconcile(shares, amount, percentages[Len(percentages)][1])

\* The split phase of add_expense: the error it raises ("" when none) and
\* the shares it computes.
SplitShares(amount, split_type, users, exact_amounts, percentages) ==
    CASE split_type = "equal" ->
           IF users = <<>>
           THEN [error |-> "Equal split requires a list of users.", shares |-> <<>>]
           ELSE [error |-> "", shares |-> EqualShares(amount, users)]
      [] split_type = "exact" ->
           IF exact_amounts = <<>>
           THEN [error |-> "Exact split requires exact_amounts mapping.", shares |-> <<>>]
           ELSE IF Round2(SumValues(exact_amounts)) # amount
           THEN [error |-> "Exact amounts do not equal expense amount.", shares |-> <<>>]
           ELSE [error |-> "", shares |-> ExactShares(exact_amounts)]
      [] split_type = "percentage" ->
           IF percentages = <<>>
           THEN [error |-> "Percentage split requires percentages mapping.", shares |-> <<>>]
           ELSE IF Round2(SumValues(percentages)) # 100000
           THEN [error |-> "Percentages must sum to 100.", shares |-> <<>>]
           ELSE [error |-> "", shares |-> PercentageShares(amount, percentages)]
      [] OTHER -> [error |-> "Unsupported split_type.", shares |-> <<>>]

(* ------------------------------- state -------------------------------- *)

VARIABLES
    users,          \* Group.users: the user ids, in insertion order
    balance,        \* User.balance of every user of the group
    expenses,       \* Group.expenses
    transactions,   \* Group.transactions
    result,         \* the last call: its name, the error it raised ("" when
                    \* it returned) and what it returned (a list of records)
    before          \* history variable: balance, expenses and transactions
                    \* as they were when the last call started

vars == <<users, balance, expenses, transactions, result, before>>

\* the ledger a call starts from
Ledger == [balance |-> balance, expenses |-> expenses, transactions |-> transactions]

Members == {users[i] : i \in 1..Len(users)}

\* Expense(...)
Expense(amount, split_type, shares, paid_by) ==
    [amount |-> amount, split_type |-> split_type, shares |-> shares,
     paid_by |-> paid_by]

\* Transaction(...)
Transaction(from_user, to_user, amount, note) ==
    [from_user |-> from_user, to_user |-> to_user, amount |-> amount,
     note |-> note]

Returned(op, ret) == [op |-> op, error |-> "", ret |-> ret]

\* every failure is a ValueError; its message is not part of the state
Raised(op, message) == [op |-> op, error |-> "ValueError", ret |-> <<>>]

\* Group.__init__
Init ==
    /\ users = <<>>
    /\ balance = <<>>
    /\ expenses = <<>>
    /\ transactions = <<>>
    /\ result = Returned("create_group", <<>>)
    /\ before = [balance |-> <<>>, expenses |-> <<>>, transactions |-> <<>>]

RECURSIVE Settlements(_)
\* the settle_debt entries of a log
Settlements(log) ==
    IF log = <<>> THEN 0
    ELSE (IF log[1].note = "Settlement" THEN 1 ELSE 0) + Settlements(Tail(log))

\* The model stops calling add_user, add_expense and settle_debt once MaxCalls
\* calls have left an entry (an expense, a settlement).  simplify_debts needs
\* no bound: called again, it has nothing left to transfer.
RoomForCall == Len(expenses) + Settlements(transactions) < MaxCalls

\* Group.add_user: a fresh id (uuid4), balance 0.0
AddUser ==
    /\ Len(users) < MaxUsers
    /\ RoomForCall
    /\ LET uid == Len(users) + 1
       IN  /\ users' = Append(users, uid)
           /\ balance' = Append(balance, 0)
           /\ result' = Returned("add_user", <<>>)
    /\ before' = Ledger
    /\ UNCHANGED <<expenses, transactions>>

\* f"Expense: {description} ({split_type})"
ExpenseNote(description, split_type) ==
    "Expense: " \o description \o " (" \o split_type \o ")"

\* the share loop leaving every balance as it was: a fault seeded to test C11
ApplyShares_Dropped(bal, shares) == [balance |-> bal, error |-> ""]

RECURSIVE ApplyShares(_, _)
\* for uid, share_amt in shares.items(): the balances when the loop ends and
\* the error that ended it ("" when it ran to the end)
ApplyShares(bal, shares) ==
    IF shares = <<>> THEN [balance |-> bal, error |-> ""]
    ELSE IF shares[1][1] \notin DOMAIN bal
    THEN [balance |-> bal, error |-> "User id not in group."]
    ELSE ApplyShares([bal EXCEPT ![shares[1][1]] = Round2(@ + shares[1][2])],
                     Tail(shares))

\* Group.add_expense, as the ledger it leaves and the result of the call
add_expense(amount, split_type, users_arg, exact_amounts, percentages, paid_by, currency) ==
    LET cur == CurrencyOrDefault(currency)
        st == Lower(split_type)
        split == SplitShares(amount, st, users_arg, exact_amounts, percentages)
        expense == Expense(Round2(amount), st, split.shares, paid_by)
        applied == ApplyShares(balance, split.shares)
        tx == Transaction(None, None, Round2(amount), ExpenseNote("", st))
        same == [balance |-> balance, expenses |-> expenses,
                 transactions |-> transactions]
    IN  IF cur # GroupCurrency
        THEN same @@ [result |-> Raised("add_expense", "Currency mismatch.")]
        ELSE IF split.error # ""
        THEN same @@ [result |-> Raised("add_expense", split.error)]
        ELSE IF applied.error # ""
        THEN [balance |-> applied.balance,
              expenses |-> Append(expenses, expense),
              transactions |-> transactions,
              result |-> Raised("add_expense", applied.error)]
        ELSE IF paid_by # None /\ paid_by \notin DOMAIN balance
        THEN [balance |-> applied.balance,
              expenses |-> Append(expenses, expense),
              transactions |-> transactions,
              result |-> Raised("add_expense", "Payer not a member of the group.")]
        ELSE [balance |-> IF paid_by # None
                          THEN [applied.balance EXCEPT ![paid_by] = Round2(@ - amount)]
                          ELSE applied.balance,
              expenses |-> Append(expenses, expense),
              transactions |-> Append(transactions, tx),
              result |-> Returned("add_expense", <<expense>>)]

(* ------------------------- Group.settle_debt -------------------------- *)

\* the checks with amount >= balance in place of amount > balance + 1e-9:
\* a fault seeded to test C6
SettleError_RejectsFull(user_id, amount) ==
    IF user_id \notin DOMAIN balance THEN "User not in group."
    ELSE IF Round2(amount) < 0 THEN "Amount must be non-negative."
    ELSE IF balance[user_id] > 0 /\ Round2(amount) >= balance[user_id]
    THEN "Cannot settle more than owed."
    ELSE IF balance[user_id] <= 0 /\ Round2(amount) > 0
    THEN "User does not owe anything."
    ELSE ""

\* the checks of settle_debt, in order: the error raised, "" when none
SettleError(user_id, amount) ==
    IF user_id \notin DOMAIN balance THEN "User not in group."
    ELSE IF Round2(amount) < 0 THEN "Amount must be non-negative."
    ELSE IF balance[user_id] > 0 /\ Round2(amount) > balance[user_id]
    THEN "Cannot settle more than owed."
    ELSE IF balance[user_id] <= 0 /\ Round2(amount) > 0
    THEN "User does not owe anything."
    ELSE ""

\* settle_debt debiting before it checks the amount: a fault seeded to test C5
settle_debt_DebitsFirst(user_id, amount, to_user_id) ==
    LET error == SettleError(user_id, amount)
        tx == Transaction(user_id, to_user_id, Round2(amount), "Settlement")
        debited == IF user_id \in DOMAIN balance
                   THEN [balance EXCEPT ![user_id] = Round2(@ - Round2(amount))]
                   ELSE balance
    IN  IF error # ""
        THEN [balance |-> debited, transactions |-> transactions,
              result |-> Raised("settle_debt", error)]
        ELSE [balance |-> debited,
              transactions |-> Append(transactions, tx),
              result |-> Returned("settle_debt", <<tx>>)]

\* settle_debt logging nothing for a zero amount: a fault seeded to test C9
settle_debt_SkipsZero(user_id, amount, to_user_id) ==
    LET error == SettleError(user_id, amount)
        tx == Transaction(user_id, to_user_id, Round2(amount), "Settlement")
    IN  IF error # ""
        THEN [balance |-> balance, transactions |-> transactions,
              result |-> Raised("settle_debt", error)]
        ELSE [balance |-> [balance EXCEPT ![user_id] = Round2(@ - Round2(amount))],
              transactions |-> IF Round2(amount) = 0 THEN transactions
                               ELSE Append(transactions, tx),
              result |-> Returned("settle_debt", <<tx>>)]

\* Group.settle_debt, as the ledger it leaves and the result of the call
settle_debt(user_id, amount, to_user_id) ==
    LET error == SettleError(user_id, amount)
        tx == Transaction(user_id, to_user_id, Round2(amount), "Settlement")
    IN  IF error # ""
        THEN [balance |-> balance, transactions |-> transactions,
              result |-> Raised("settle_debt", error)]
        ELSE [balance |-> [balance EXCEPT ![user_id] = Round2(@ - Round2(amount))],
              transactions |-> Append(transactions, tx),
              result |-> Returned("settle_debt", <<tx>>)]

(* ------------------------ Group.simplify_debts ------------------------ *)

Min(a, b) == IF a <= b THEN a ELSE b

RECURSIVE Debtors_IncludingZero(_)
\* the debtors with bal >= 0 in place of bal > 0: a fault seeded to test C3
Debtors_IncludingZero(i) ==
    IF i > Len(users) THEN <<>>
    ELSE IF Round2(balance[users[i]]) >= 0
    THEN <<(<<users[i], Round2(balance[users[i]])>>)>> \o Debtors_IncludingZero(i + 1)
    ELSE Debtors_IncludingZero(i + 1)

RECURSIVE Debtors(_)
\* [uid, bal] for the users with round(balance, 2) > 0, from user i on
Debtors(i) ==
    IF i > Len(users) THEN <<>>
    ELSE IF Round2(balance[users[i]]) > 0
    THEN <<(<<users[i], Round2(balance[users[i]])>>)>> \o Debtors(i + 1)
    ELSE Debtors(i + 1)

RECURSIVE Creditors_IncludingZero(_)
\* the creditors with bal <= 0 in place of bal < 0: a fault seeded to test C15
Creditors_IncludingZero(i) ==
    IF i > Len(users) THEN <<>>
    ELSE IF Round2(balance[users[i]]) <= 0
    THEN <<(<<users[i], -Round2(balance[users[i]])>>)>> \o Creditors_IncludingZero(i + 1)
    ELSE Creditors_IncludingZero(i + 1)

RECURSIVE Creditors(_)
\* [uid, -bal] for the users with round(balance, 2) < 0, from user i on
Creditors(i) ==
    IF i > Len(users) THEN <<>>
    ELSE IF Round2(balance[users[i]]) < 0
    THEN <<(<<users[i], -Round2(balance[users[i]])>>)>> \o Creditors(i + 1)
    ELSE Creditors(i + 1)

RECURSIVE InsertDesc(_, _)
\* x placed behind every entry that is at least as large: list.sort is stable,
\* also with reverse=True
InsertDesc(sorted, x) ==
    IF sorted = <<>> THEN <<x>>
    ELSE IF sorted[1][2] >= x[2] THEN <<sorted[1]>> \o InsertDesc(Tail(sorted), x)
    ELSE <<x>> \o sorted

RECURSIVE SortInto(_, _)
SortInto(sorted, rest) ==
    IF rest = <<>> THEN sorted
    ELSE SortInto(InsertDesc(sorted, rest[1]), Tail(rest))

\* the list left in the order of the users: a fault seeded to test C16
SortDesc_Skipped(list) == list

\* list.sort(key=lambda x: x[1], reverse=True)
SortDesc(list) == SortInto(<<>>, list)

\* the cursor moved on while a cent remains: a fault seeded to test C17
Advance_Early(cursor, remaining) == IF Abs(remaining) < 11 THEN cursor + 1 ELSE cursor

\* the cursor moved on whatever remains: a fault seeded to test C12
Advance_Always(cursor, remaining) == cursor + 1

\* i += 1 / j += 1 when the remaining amount is within 1e-9 of zero
Advance(cursor, remaining) == IF Abs(remaining) < 1 THEN cursor + 1 ELSE cursor

\* the debtor left undebited: a fault seeded to test C2
Debit_Dropped(bal, debtor_id, transfer) == bal

\* self.users[debtor_id].balance = round(... - transfer, 2)
Debit(bal, debtor_id, transfer) ==
    [bal EXCEPT ![debtor_id] = Round2(@ - transfer)]

\* the creditor credited twice over: a fault seeded to test C18
Credit_Doubled(bal, creditor_id, transfer) ==
    [bal EXCEPT ![creditor_id] = Round2(@ + 2 * transfer)]

\* the creditor left uncredited: a fault seeded to test C8
Credit_Dropped(bal, creditor_id, transfer) == bal

\* self.users[creditor_id].balance = round(... + transfer, 2)
Credit(bal, creditor_id, transfer) ==
    [bal EXCEPT ![creditor_id] = Round2(@ + transfer)]

RECURSIVE Match(_, _, _, _, _, _)
\* the while loop of simplify_debts (cursors from 1): the balances and the
\* settlements when it ends
Match(debtors, creditors, i, j, bal, settlements) ==
    IF ~(i <= Len(debtors) /\ j <= Len(creditors))
    THEN [balance |-> bal, settlements |-> settlements]
    ELSE
      LET debtor_id == debtors[i][1]
          creditor_id == creditors[j][1]
          transfer == Round2(Min(debtors[i][2], creditors[j][2]))
          tx == Transaction(debtor_id, creditor_id, transfer, "Simplified settlement")
          owe == Round2(debtors[i][2] - transfer)
          recv == Round2(creditors[j][2] - transfer)
          bal1 == Debit(bal, debtor_id, transfer)
          bal2 == Credit(bal1, creditor_id, transfer)
      IN  Match([debtors EXCEPT ![i] = <<debtor_id, owe>>],
                [creditors EXCEPT ![j] = <<creditor_id, recv>>],
                Advance(i, owe), Advance(j, recv),
                bal2, Append(settlements, tx))

\* Group.simplify_debts, as the ledger it leaves and the result of the call
simplify_debts ==
    LET done == Match(SortDesc(Debtors(1)), SortDesc(Creditors(1)), 1, 1, balance, <<>>)
    IN  [balance |-> done.balance,
         transactions |-> transactions \o done.settlements,
         result |-> Returned("simplify_debts", done.settlements)]

(* ------------------------------- inputs ------------------------------- *)

\* the ids a caller passes: the members and one id that is no member
Candidates == Members \cup {Stranger}

Payers == {None} \cup Candidates

\* amount: 0.03 and 0.014
Amounts == {30, 14}

\* currency: absent, or one that is not the group's
Currencies == {"", "EUR"}

\* the ids a caller names in split parameters: the first MaxSharers members
\* and the stranger
Sharers == {users[i] : i \in 1..Min(Len(users), MaxSharers)} \cup {Stranger}

\* users: the lists of at most MaxList ids (None and [] are both falsy)
UserLists == UNION {[1..n -> Sharers] : n \in 0..MaxList}

\* the dicts of at most MaxList entries with values from vals
Dicts(vals) ==
    UNION {{d \in [1..n -> Sharers \X vals] :
                \A i, j \in 1..n : d[i][1] = d[j][1] => i = j} : n \in 0..MaxList}

\* exact_amounts values: 0.01, 0.014 and 0.02
ExactValues == {10, 14, 20}

\* percentages values: 50 and 100
PercentValues == {50000, 100000}

\* settle_debt amounts: -0.01, 0, 0.01, 0.014, 0.03
SettleAmounts == {-10, 0, 10, 14, 30}

(* ------------------------------- actions ------------------------------ *)

AddExpense(amount, split_type, users_arg, exact_amounts, percentages, paid_by, currency) ==
    /\ LET out == add_expense(amount, split_type, users_arg, exact_amounts,
                              percentages, paid_by, currency)
       IN  /\ balance' = out.balance
           /\ expenses' = out.expenses
           /\ transactions' = out.transactions
           /\ result' = out.result
    /\ before' = Ledger
    /\ UNCHANGED users

AddExpenseEqual ==
    /\ RoomForCall
    /\ \E amount \in Amounts, users_arg \in UserLists, paid_by \in Payers,
          currency \in Currencies :
           AddExpense(amount, "EQUAL", users_arg, <<>>, <<>>, paid_by, currency)

AddExpenseExact ==
    /\ RoomForCall
    /\ \E amount \in Amounts, exact_amounts \in Dicts(ExactValues), paid_by \in Payers :
           AddExpense(amount, "Exact", <<>>, exact_amounts, <<>>, paid_by, "")

AddExpensePercentage ==
    /\ RoomForCall
    /\ \E amount \in Amounts, percentages \in Dicts(PercentValues), paid_by \in Payers :
           AddExpense(amount, "percentage", <<>>, <<>>, percentages, paid_by, "")

AddExpenseUnsupported ==
    /\ RoomForCall
    /\ \E amount \in Amounts, users_arg \in UserLists :
           AddExpense(amount, "weighted", users_arg, <<>>, <<>>, None, "")

SettleDebt ==
    /\ RoomForCall
    /\ \E user_id \in Candidates, amount \in SettleAmounts, to_user_id \in Payers :
           LET out == settle_debt(user_id, amount, to_user_id)
           IN  /\ balance' = out.balance
               /\ transactions' = out.transactions
               /\ result' = out.result
    /\ before' = Ledger
    /\ UNCHANGED <<users, expenses>>

SimplifyDebts ==
    /\ LET out == simplify_debts
       IN  /\ balance' = out.balance
           /\ transactions' = out.transactions
           /\ result' = out.result
    /\ before' = Ledger
    /\ UNCHANGED <<users, expenses>>

Next ==
    \/ AddUser
    \/ AddExpenseEqual
    \/ AddExpenseExact
    \/ AddExpensePercentage
    \/ AddExpenseUnsupported
    \/ SettleDebt
    \/ SimplifyDebts

Spec == Init /\ [][Next]_vars

(* -------- only accepted add_expense calls with 2-decimal values -------- *)

TwoDecimal(vals) == {v \in vals : Round2(v) = v}

AcceptedEqual ==
    /\ RoomForCall
    /\ \E amount \in Amounts, users_arg \in UserLists, paid_by \in Payers :
           /\ AddExpense(amount, "EQUAL", users_arg, <<>>, <<>>, paid_by, "")
           /\ result'.error = ""

AcceptedExact ==
    /\ RoomForCall
    /\ \E amount \in Amounts, exact_amounts \in Dicts(ExactValues),
          paid_by \in Payers :
           /\ AddExpense(amount, "Exact", <<>>, exact_amounts, <<>>, paid_by, "")
           /\ result'.error = ""

AcceptedPercentage ==
    /\ RoomForCall
    /\ \E amount \in Amounts, percentages \in Dicts(PercentValues),
          paid_by \in Payers :
           /\ AddExpense(amount, "percentage", <<>>, <<>>, percentages, paid_by, "")
           /\ result'.error = ""

NextExpenses ==
    \/ AddUser
    \/ AcceptedEqual
    \/ AcceptedExact
    \/ AcceptedPercentage
    \/ SimplifyDebts

\* the group after accepted add_expense calls and simplify_debts calls only
SpecExpenses == Init /\ [][NextExpenses]_vars

(* ------------------------ vocabulary of the claims --------------------- *)

RECURSIVE SumBalances(_)
SumBalances(bal) == IF bal = <<>> THEN 0 ELSE bal[1] + SumBalances(Tail(bal))

\* the number of users who owe (balance > 0) and who are owed (balance < 0)
OwingCount(bal) == Cardinality({u \in DOMAIN bal : bal[u] > 0})

OwedCount(bal) == Cardinality({u \in DOMAIN bal : bal[u] < 0})

AllZero(bal) == \A u \in DOMAIN bal : bal[u] = 0

IsPrefix(s, t) == Len(s) <= Len(t) /\ SubSeq(t, 1, Len(s)) = s

RECURSIVE SentBy(_, _)
\* what the transfers of a list take from user u
SentBy(u, txs) ==
    IF txs = <<>> THEN 0
    ELSE (IF txs[1].from_user = u THEN txs[1].amount ELSE 0) + SentBy(u, Tail(txs))

RECURSIVE ReceivedBy(_, _)
\* what the transfers of a list give to user u
ReceivedBy(u, txs) ==
    IF txs = <<>> THEN 0
    ELSE (IF txs[1].to_user = u THEN txs[1].amount ELSE 0) + ReceivedBy(u, Tail(txs))

Accepted(op) == result.op = op /\ result.error = ""

Failed(op) == result.op = op /\ result.error # ""

(* -------------------------------- claims ------------------------------- *)

\* C1 (as claimed): the shares stored by every accepted add_expense call sum
\* to the amount rounded to 2 decimals, exactly.
C1_ShareConservation ==
    Accepted("add_expense") =>
        SumValues(result.ret[1].shares) = result.ret[1].amount

\* C2 (as claimed): after accepted add_expense calls, with or without a payer,
\* simplify_debts leaves every balance zero.
C2_SimplifyZeroesAnyLedger ==
    Accepted("simplify_debts") => AllZero(balance)

\* C2 (amended): after accepted add_expense calls, simplify_debts leaves
\* every balance zero exactly when the balances summed to zero before the
\* call; otherwise it leaves no user owing while another is owed.
C2_SimplifyZeroesBalancedLedger ==
    Accepted("simplify_debts") =>
        /\ AllZero(balance) <=> SumBalances(before.balance) = 0
        /\ OwingCount(balance) = 0 \/ OwedCount(balance) = 0

\* C2 witness: two paid expenses left two users owed, and simplify_debts
\* zeroed the ledger with two transfers.
C2_Witness ==
    /\ Accepted("simplify_debts")
    /\ Len(expenses) = 2
    /\ \A i \in 1..Len(expenses) : expenses[i].paid_by # None
    /\ Len(result.ret) = 2
    /\ OwedCount(before.balance) = 2
    /\ AllZero(balance)

\* C3 (as claimed): simplify_debts returns at most D + C - 1 transfers, D and
\* C the numbers of users with positive and with negative balance at the
\* start of the call.
C3_TransferBound ==
    Accepted("simplify_debts") =>
        Len(result.ret) <= OwingCount(before.balance) + OwedCount(before.balance) - 1

\* C3 (amended): simplify_debts returns at most D + C - 1 transfers when some
\* user has a non-zero balance, and none when every balance is zero.
C3_TransferBoundNonEmpty ==
    Accepted("simplify_debts") =>
        LET n == OwingCount(before.balance) + OwedCount(before.balance)
        IN  Len(result.ret) <= (IF n = 0 THEN 0 ELSE n - 1)

\* C3 witness: two users owed one, and the call returned D + C - 1 = 2 transfers.
C3_Witness ==
    /\ Accepted("simplify_debts")
    /\ OwingCount(before.balance) = 2
    /\ OwedCount(before.balance) = 1
    /\ Len(result.ret) = 2

\* C4 (as claimed): when add_expense raises, balances, expenses and
\* transactions are what they were before the call.
C4_AddExpenseAtomic ==
    Failed("add_expense") =>
        /\ balance = before.balance
        /\ expenses = before.expenses
        /\ transactions = before.transactions

\* C5: when settle_debt raises, every balance and the transaction log are what
\* they were before the call.
C5_SettleAtomic ==
    Failed("settle_debt") =>
        /\ balance = before.balance
        /\ transactions = before.transactions

\* C5 witness: a settle_debt call failed in a group where somebody owes and a
\* log entry exists.
C5_Witness ==
    /\ Failed("settle_debt")
    /\ OwingCount(balance) >= 1
    /\ Len(transactions) >= 1

\* C6: for a member u with balance b and a 2-decimal amount a, settle_debt
\* succeeds exactly when a >= 0 and (b > 0 and a <= b, or b <= 0 and a = 0);
\* it then leaves b - a and turns no balance negative; a > b > 0 fails as
\* over-settlement, a > 0 >= b as nothing owed; and once a call has settled a
\* user's whole debt, every positive amount fails for that user.
C6_SettlementBounds ==
    /\ \A u \in DOMAIN balance, a \in TwoDecimal(SettleAmounts) :
          LET b == balance[u]
              out == settle_debt(u, a, None)
          IN  /\ (out.result.error = "") <=>
                    (a >= 0 /\ ((b > 0 /\ a <= b) \/ (b <= 0 /\ a = 0)))
              /\ out.result.error = "" =>
                    /\ out.balance[u] = b - a
                    /\ b >= 0 => out.balance[u] >= 0
              /\ (b > 0 /\ a > b) => SettleError(u, a) = "Cannot settle more than owed."
              /\ (b <= 0 /\ a > 0) => SettleError(u, a) = "User does not owe anything."
    /\ Accepted("settle_debt") =>
          LET tx == result.ret[1]
              u == tx.from_user
          IN  /\ balance[u] = before.balance[u] - tx.amount
              /\ (tx.amount > 0 /\ tx.amount = before.balance[u]) =>
                    /\ balance[u] = 0
                    /\ \A a \in SettleAmounts :
                          Round2(a) > 0 => settle_debt(u, a, None).result.error # ""

\* C6 witness: a settle_debt call has settled a user's whole positive balance.
C6_Witness ==
    /\ Accepted("settle_debt")
    /\ result.ret[1].amount > 0
    /\ result.ret[1].amount = before.balance[result.ret[1].from_user]
    /\ balance[result.ret[1].from_user] = 0

\* C7 (as claimed): an accepted settle_debt with a recipient lowers the payer's
\* balance by the amount and raises the recipient's balance by the same amount.
C7_SettlementCreditsRecipient ==
    (/\ Accepted("settle_debt")
     /\ result.ret[1].to_user \in DOMAIN balance
     /\ result.ret[1].to_user # result.ret[1].from_user)
        => LET tx == result.ret[1]
           IN  /\ balance[tx.from_user] = before.balance[tx.from_user] - tx.amount
               /\ balance[tx.to_user] = before.balance[tx.to_user] + tx.amount

\* C8: every transfer simplify_debts returns takes its amount from the debtor
\* and gives the same amount to the creditor, so the sum of all balances after
\* the call is the sum before it.
C8_SimplifyRedistributes ==
    Accepted("simplify_debts") =>
        /\ \A u \in DOMAIN balance :
              balance[u] = before.balance[u] - SentBy(u, result.ret)
                                             + ReceivedBy(u, result.ret)
        /\ SumBalances(balance) = SumBalances(before.balance)

\* C8 witness: simplify_debts made transfers in a ledger whose balances do not
\* sum to zero.
C8_Witness ==
    /\ Accepted("simplify_debts")
    /\ Len(result.ret) >= 1
    /\ SumBalances(before.balance) # 0

\* C9: the transaction log grows by exactly 1 on an accepted add_expense and
\* on an accepted settle_debt (a zero amount included), by exactly the
\* returned transfers on simplify_debts and by nothing on a failed call; the
\* log before a call is a prefix of the log after it.
C9_AppendOnlyLog ==
    /\ IsPrefix(before.transactions, transactions)
    /\ Accepted("add_expense") => Len(transactions) = Len(before.transactions) + 1
    /\ Accepted("settle_debt") => Len(transactions) = Len(before.transactions) + 1
    /\ Accepted("simplify_debts") => transactions = before.transactions \o result.ret
    /\ result.error # "" => Len(transactions) = Len(before.transactions)

\* C9 witness: a zero-amount settlement was appended behind an earlier entry.
C9_Witness ==
    /\ Accepted("settle_debt")
    /\ result.ret[1].amount = 0
    /\ Len(before.transactions) = 1
    /\ Len(transactions) = 2

\* C10 (as claimed): every user id among the share keys or as paid_by of a
\* stored Expense, and every from_user / to_user of a logged Transaction that
\* is not None, is a key of the users mapping.
C10_ReferentialIntegrity ==
    /\ \A i \in 1..Len(expenses) :
          /\ KeySet(expenses[i].shares) \subseteq Members
          /\ expenses[i].paid_by # None => expenses[i].paid_by \in Members
    /\ \A i \in 1..Len(transactions) :
          /\ transactions[i].from_user # None => transactions[i].from_user \in Members
          /\ transactions[i].to_user # None => transactions[i].to_user \in Members

RECURSIVE PositiveTotal(_)
\* the total of the positive balances
PositiveTotal(bal) ==
    IF bal = <<>> THEN 0
    ELSE (IF bal[1] > 0 THEN bal[1] ELSE 0) + PositiveTotal(Tail(bal))

RECURSIVE NegativeTotal(_)
\* the total magnitude of the negative balances
NegativeTotal(bal) ==
    IF bal = <<>> THEN 0
    ELSE (IF bal[1] < 0 THEN -bal[1] ELSE 0) + NegativeTotal(Tail(bal))

\* C12: when the positive balances and the negative balances have the same
\* total magnitude at the start of simplify_debts, every balance is zero
\* after the call.
C12_BalancedLedgerZeroed ==
    (/\ Accepted("simplify_debts")
     /\ PositiveTotal(before.balance) = NegativeTotal(before.balance))
        => \A u \in DOMAIN balance : balance[u] = 0

\* C12 witness: one user owed what two others were owed together, and the
\* call settled it with two transfers.
C12_Witness ==
    /\ Accepted("simplify_debts")
    /\ PositiveTotal(before.balance) = NegativeTotal(before.balance)
    /\ OwingCount(before.balance) = 1
    /\ OwedCount(before.balance) = 2
    /\ Len(result.ret) = 2

\* the users lists of an equal split among members, up to MaxEqualList
\* entries, repeated ids included
EqualLists == UNION {[1..n -> Sharers \cap Members] : n \in 1..MaxEqualList}

RECURSIVE ListedShare(_, _, _, _, _)
\* what the entries of a users list give to user u when every entry carries
\* share and the last entry carries the leftover as well
ListedShare(u, users_arg, i, share, leftover) ==
    IF i > Len(users_arg) THEN 0
    ELSE (IF users_arg[i] = u
          THEN share + (IF i = Len(users_arg) THEN leftover ELSE 0)
          ELSE 0)
         + ListedShare(u, users_arg, i + 1, share, leftover)

\* C13 (as claimed): in an equal split of amount over a non-empty list of
\* members of length n every entry other than the last receives round2(amount / n)
\* and the last entry receives round2(amount / n) plus the leftover
\* round2(amount) - n * round2(amount / n); nobody else absorbs any of it.
C13_EqualRemainderToLast ==
    \A amount \in Amounts, users_arg \in EqualLists :
        LET n == Len(users_arg)
            share == Round2Div(amount, n)
            leftover == Round2(amount) - n * share
            split == SplitShares(amount, Lower("EQUAL"), users_arg, <<>>, <<>>)
        IN  /\ split.error = ""
            /\ KeySet(split.shares) = {users_arg[i] : i \in 1..n}
            /\ \A u \in KeySet(split.shares) :
                  DictGet(split.shares, u) = ListedShare(u, users_arg, 1, share, leftover)

\* C14 (as claimed): an exact split with a non-empty mapping over members is
\* rejected exactly when the sum of its values rounded to 2 decimals differs
\* from the amount rounded to 2 decimals.
C14_ExactValidation ==
    \A amount \in Amounts, exact_amounts \in Dicts(ExactValues) :
        (exact_amounts # <<>> /\ KeySet(exact_amounts) \subseteq Members) =>
            LET split == SplitShares(amount, Lower("Exact"), <<>>, exact_amounts, <<>>)
            IN  (split.error # "") <=>
                    (Round2(SumValues(exact_amounts)) # Round2(amount))

RECURSIVE LoopProgress(_, _, _, _, _)
\* the while loop of simplify_debts walked with a budget of iterations: TRUE
\* when it ends within the budget and every iteration makes a transfer above
\* zero and moves at least one cursor
LoopProgress(debtors, creditors, i, j, budget) ==
    IF ~(i <= Len(debtors) /\ j <= Len(creditors)) THEN TRUE
    ELSE IF budget = 0 THEN FALSE
    ELSE
      LET transfer == Round2(Min(debtors[i][2], creditors[j][2]))
          owe == Round2(debtors[i][2] - transfer)
          recv == Round2(creditors[j][2] - transfer)
      IN  /\ transfer > 0
          /\ Advance(i, owe) > i \/ Advance(j, recv) > j
          /\ LoopProgress([debtors EXCEPT ![i] = <<debtors[i][1], owe>>],
                          [creditors EXCEPT ![j] = <<creditors[j][1], recv>>],
                          Advance(i, owe), Advance(j, recv), budget - 1)

\* C15: from every reachable ledger simplify_debts ends without raising:
\* each iteration of its loop transfers an amount above zero and moves at
\* least one cursor, so the loop ends within as many iterations as there are
\* users, and the call returns.
C15_SimplifyTerminates ==
    /\ LoopProgress(SortDesc(Debtors(1)), SortDesc(Creditors(1)), 1, 1, Len(users))
    /\ result.op = "simplify_debts" =>
          /\ result.error = ""
          /\ Len(result.ret) <= Len(users)
          /\ \A k \in 1..Len(result.ret) : result.ret[k].amount > 0

\* C15 witness: the call returned two transfers from a ledger whose positive
\* and negative totals differ.
C15_Witness ==
    /\ Accepted("simplify_debts")
    /\ PositiveTotal(before.balance) # NegativeTotal(before.balance)
    /\ Len(result.ret) = 2

\* what the debtor of transfer k still owed, and what its creditor was still
\* owed, when transfer k of a returned list was made
OweBefore(k, txs) ==
    before.balance[txs[k].from_user] - SentBy(txs[k].from_user, SubSeq(txs, 1, k - 1))

OwedBefore(k, txs) ==
    (-before.balance[txs[k].to_user]) - ReceivedBy(txs[k].to_user, SubSeq(txs, 1, k - 1))

\* C16: the transfers simplify_debts returns name the debtors in
\* non-increasing order of starting balance and the creditors in
\* non-increasing order of starting credit, the first from a largest debtor
\* to a largest creditor; each amount is the minimum of what its debtor still
\* owes and its creditor is still owed; and the returned list is the suffix
\* the call appended to the transaction log.
C16_GreedyOrder ==
    Accepted("simplify_debts") =>
        LET txs == result.ret
        IN  /\ \A k, l \in 1..Len(txs) :
                  k < l =>
                     /\ before.balance[txs[k].from_user] >= before.balance[txs[l].from_user]
                     /\ before.balance[txs[k].to_user] <= before.balance[txs[l].to_user]
            /\ txs # <<>> =>
                  \A u \in DOMAIN before.balance :
                     /\ before.balance[txs[1].from_user] >= before.balance[u]
                     /\ before.balance[txs[1].to_user] <= before.balance[u]
            /\ \A k \in 1..Len(txs) :
                  txs[k].amount = Min(OweBefore(k, txs), OwedBefore(k, txs))
            /\ transactions = before.transactions \o txs
            /\ Len(transactions) = Len(before.transactions) + Len(txs)

\* C16 witness: the second user owed more than the first, and the call
\* returned the second user's transfer ahead of the first user's.
C16_Witness ==
    /\ Accepted("simplify_debts")
    /\ Len(result.ret) = 2
    /\ result.ret[1].from_user = 2
    /\ result.ret[2].from_user = 1
    /\ before.balance[2] > before.balance[1]

\* C17: right after a simplify_debts call the ledger has no user with a
\* positive balance together with a user with a negative balance, so a second
\* call at once returns no transfers and leaves the balances and the
\* transaction log as they are.
C17_SimplifyIdempotent ==
    Accepted("simplify_debts") =>
        /\ ~(\E u, v \in DOMAIN balance : balance[u] > 0 /\ balance[v] < 0)
        /\ simplify_debts.result.ret = <<>>
        /\ simplify_debts.balance = balance
        /\ simplify_debts.transactions = transactions

\* C17 witness: a call that made transfers and left a balance that is not
\* zero.
C17_Witness ==
    /\ Accepted("simplify_debts")
    /\ Len(result.ret) >= 1
    /\ \E u \in DOMAIN balance : balance[u] # 0

\* the balance of user u after the first k transfers of a returned list
BalanceAfter(u, k, txs) ==
    before.balance[u] - SentBy(u, SubSeq(txs, 1, k)) + ReceivedBy(u, SubSeq(txs, 1, k))

\* C18: in a simplify_debts call a user who started at zero is in no
\* transfer and stays at zero, a user who started with b > 0 stays within
\* [0, b] after every transfer and at the end, a user who started with
\* -c < 0 stays within [-c, 0], and no user both sends and receives.
C18_NoOvershoot ==
    Accepted("simplify_debts") =>
        LET txs == result.ret
        IN  /\ \A u \in DOMAIN balance :
                  LET b == before.balance[u]
                  IN  /\ b = 0 =>
                            /\ balance[u] = 0
                            /\ \A k \in 1..Len(txs) :
                                  txs[k].from_user # u /\ txs[k].to_user # u
                      /\ b > 0 =>
                            /\ 0 <= balance[u] /\ balance[u] <= b
                            /\ \A k \in 0..Len(txs) :
                                  0 <= BalanceAfter(u, k, txs) /\ BalanceAfter(u, k, txs) <= b
                      /\ b < 0 =>
                            /\ b <= balance[u] /\ balance[u] <= 0
                            /\ \A k \in 0..Len(txs) :
                                  b <= BalanceAfter(u, k, txs) /\ BalanceAfter(u, k, txs) <= 0
            /\ \A k, l \in 1..Len(txs) : txs[k].from_user # txs[l].to_user

\* C18 witness: a call that left one user at zero untouched and paid off
\* only a part of what another user owed.
C18_Witness ==
    /\ Accepted("simplify_debts")
    /\ Len(result.ret) >= 1
    /\ \E u \in DOMAIN balance : before.balance[u] = 0 /\ balance[u] = 0
    /\ \E u \in DOMAIN balance : 0 < balance[u] /\ balance[u] < before.balance[u]

(* ---- accepted add_expense calls that name a payer, 2-decimal amounts --- *)

PaidEqual ==
    /\ RoomForCall
    /\ \E amount \in TwoDecimal(Amounts), users_arg \in UserLists,
          paid_by \in Payers \ {None} :
           /\ AddExpense(amount, "EQUAL", users_arg, <<>>, <<>>, paid_by, "")
           /\ result'.error = ""

PaidExact ==
    /\ RoomForCall
    /\ \E amount \in TwoDecimal(Amounts), exact_amounts \in Dicts(ExactValues),
          paid_by \in Payers \ {None} :
           /\ AddExpense(amount, "Exact", <<>>, exact_amounts, <<>>, paid_by, "")
           /\ result'.error = ""

PaidPercentage ==
    /\ RoomForCall
    /\ \E amount \in TwoDecimal(Amounts), percentages \in Dicts(PercentValues),
          paid_by \in Payers \ {None} :
           /\ AddExpense(amount, "percentage", <<>>, <<>>, percentages, paid_by, "")
           /\ result'.error = ""

NextPaid ==
    \/ AddUser
    \/ PaidEqual
    \/ PaidExact
    \/ PaidPercentage
    \/ SimplifyDebts

\* the group after accepted add_expense calls that name a payer, with
\* 2-decimal amounts, and simplify_debts calls only
SpecPaid == Init /\ [][NextPaid]_vars

\* C19 (as claimed): in every state reached by accepted add_expense calls
\* that name a payer, with 2-decimal amounts, and simplify_debts calls only,
\* the balances of all users sum to zero.
C19_ZeroSum ==
    SumBalances(balance) = 0

====
